---- MODULE Spec2Model ----
(***************************************************************************)
(* wifi-speed-cli (src/main.go): the WiFi scan path.                       *)
(*                                                                         *)
(*   scanWiFi          privilege check, nmcli adapter, wifiscan fallback   *)
(*   scanWithNmcli     the nmcli adapter: one goroutine runs the command   *)
(*                     and starts a parse goroutine per line, a closer     *)
(*                     goroutine closes networkChan, the caller collects   *)
(*   parseNetworkLine  the line parser                                     *)
(*   getSignalQualityLabelFromPercent / getSignalQualityLabel              *)
(*                                                                         *)
(* Strings are TLA+ strings.  A line of tool output is represented by the  *)
(* sequence of its whitespace-separated tokens (what strings.Fields        *)
(* returns for it); the empty line "" is <<>>.  An output is the sequence  *)
(* of lines strings.Split(output, "\n") returns for it, so the empty       *)
(* output is << <<>> >> and an output without a newline has one line.      *)
(***************************************************************************)
EXTENDS Integers, Sequences, FiniteSets, TLC

VARIABLES
    \* ---- scanWiFi / scanWithNmcli (specification Spec)
    isRoot,     \* checkIsRoot()
    pc,         \* where the calling goroutine (scanWiFi, scanWithNmcli) is
    nmcliErr,   \* what scanWithNmcli returned ("pending" before it returns)
    outer,      \* where the command goroutine (main.go:51-112) is
    outerErr,   \* the error it is about to send on errorChan
    lines,      \* lines, once the command has returned them
    idx,        \* the loop index i of the spawn loop (main.go:86)
    wg,         \* the WaitGroup counter
    gpc,        \* gpc[i]: where the parse goroutine of lines[i] is
    gnet,       \* gnet[i]: the network it parsed
    closer,     \* where the closer goroutine (main.go:108-111) is
    closed,     \* networkChan is closed
    networks,   \* the collected slice (main.go:124)
    out,        \* what was printed, in order
    calls,      \* the adapters invoked, in order
    crashed,    \* a goroutine panicked: the process is gone
    libErr,     \* what wifiscan.Scan returned as error
    libRecords, \* and as records
    \* ---- parseNetworkLine alone (specification ParseSpec)
    pline,      \* the line handed to parseNetworkLine
    pres,       \* its result
    \* ---- the classifiers alone (specification ClassifySpec)
    percent,    \* the input
    labels      \* <<getSignalQualityLabelFromPercent, getSignalQualityLabel>>

scanVars == <<isRoot, pc, nmcliErr, outer, outerErr, lines, idx, wg, gpc, gnet,
              closer, closed, networks, out, calls, crashed, libErr, libRecords>>
parseVars == <<pline, pres>>
classVars == <<percent, labels>>
vars == <<scanVars, parseVars, classVars>>

(***************************************************************************)
(* Bounds of the model.                                                    *)
(***************************************************************************)
\* data lines after the header in one nmcli output
MaxLines == 2
\* records in one wifiscan result
MaxRecords == 2
\* tokens in a line handed to parseNetworkLine alone
MaxFields == 7
\* SSID words in a line of the layout [*] BSSID w1 .. wk Infra CHAN RATE SIGNAL BARS SECURITY
MaxWords == 2
\* the classifiers are applied to -PercentSlack .. 100 + PercentSlack
PercentSlack == 20

(***************************************************************************)
(* Strings, character by character.                                        *)
(***************************************************************************)
HiddenLabel == "[Hidden Network]"

\* The characters of the strings the model uses (TLC cannot index a string).
Chars(s) ==
    CASE s = "" -> <<>>
      [] s = "*" -> <<"*">>
      [] s = "--" -> <<"-", "-">>
      [] s = "Infra" -> <<"I", "n", "f", "r", "a">>
      [] s = "w" -> <<"w">>
      [] s = "v" -> <<"v">>
      [] s = "b1" -> <<"b", "1">>
      [] s = "b2" -> <<"b", "2">>
      [] s = "6" -> <<"6">>
      [] s = "54" -> <<"5", "4">>
      [] s = "80" -> <<"8", "0">>
      [] s = "50" -> <<"5", "0">>
      [] s = "19" -> <<"1", "9">>
      [] s = "-5" -> <<"-", "5">>
      [] s = "bars" -> <<"b", "a", "r", "s">>
      [] s = "wpa" -> <<"w", "p", "a">>
      [] s = "home" -> <<"h", "o", "m", "e">>
      [] s = "cafe" -> <<"c", "a", "f", "e">>
      [] s = "a1b2c3d4e5f6" ->
            <<"a", "1", "b", "2", "c", "3", "d", "4", "e", "5", "f", "6">>
      [] s = "aa:bb:cc:dd:ee:ff" ->
            <<"a", "a", ":", "b", "b", ":", "c", "c", ":", "d", "d", ":",
              "e", "e", ":", "f", "f">>

DigitValue(c) ==
    CASE c = "0" -> 0 [] c = "1" -> 1 [] c = "2" -> 2 [] c = "3" -> 3
      [] c = "4" -> 4 [] c = "5" -> 5 [] c = "6" -> 6 [] c = "7" -> 7
      [] c = "8" -> 8 [] c = "9" -> 9 [] OTHER -> -1

RECURSIVE DecimalValue(_)
DecimalValue(cs) ==
    IF cs = <<>> THEN 0
    ELSE 10 * DecimalValue(SubSeq(cs, 1, Len(cs) - 1)) + DigitValue(cs[Len(cs)])

\* strconv.Atoi: an optional sign, then one or more decimal digits.
Atoi(s) ==
    LET cs == Chars(s)
        signed == cs # <<>> /\ cs[1] \in {"+", "-"}
        ds == IF signed THEN Tail(cs) ELSE cs
    IN  IF ds = <<>> \/ \E i \in 1..Len(ds) : DigitValue(ds[i]) < 0
        THEN [ok |-> FALSE, val |-> 0]
        ELSE [ok |-> TRUE,
              val |-> IF signed /\ cs[1] = "-" THEN 0 - DecimalValue(ds)
                      ELSE DecimalValue(ds)]

\* strings.Join(elems, " ")
RECURSIVE Join(_)
Join(elems) ==
    IF elems = <<>> THEN ""
    ELSE IF Len(elems) = 1 THEN elems[1]
    ELSE elems[1] \o " " \o Join(Tail(elems))

\* strings.Contains(s, ":")
ContainsColon(s) == \E i \in 1..Len(Chars(s)) : Chars(s)[i] = ":"

isHexString(s) ==
    \A i \in 1..Len(Chars(s)) :
        Chars(s)[i] \in {"0", "1", "2", "3", "4", "5", "6", "7", "8", "9",
                         "a", "b", "c", "d", "e", "f",
                         "A", "B", "C", "D", "E", "F"}

isLikelyMacAddress(s) == Len(Chars(s)) = 12 /\ isHexString(s)

\* Go's integer division truncates toward zero.
GoDiv(a, b) ==
    IF (a >= 0) = (b > 0) THEN (IF a >= 0 THEN a ELSE 0 - a) \div (IF b > 0 THEN b ELSE 0 - b)
    ELSE 0 - ((IF a >= 0 THEN a ELSE 0 - a) \div (IF b > 0 THEN b ELSE 0 - b))

(***************************************************************************)
(* The classifiers.                                                        *)
(***************************************************************************)
getSignalQualityLabelFromPercent(p) ==
    IF p >= 80 THEN "Excellent"
    ELSE IF p >= 60 THEN "Good"
    ELSE IF p >= 40 THEN "Fair"
    ELSE IF p >= 20 THEN "Poor"
    ELSE "Very Poor"

getSignalQualityLabel_offByOne(quality) ==
    IF quality > 80 THEN "Excellent"
    ELSE IF quality >= 60 THEN "Good"
    ELSE IF quality >= 40 THEN "Fair"
    ELSE IF quality >= 20 THEN "Poor"
    ELSE "Very Poor"

getSignalQualityLabel(quality) ==
    IF quality >= 80 THEN "Excellent"
    ELSE IF quality >= 60 THEN "Good"
    ELSE IF quality >= 40 THEN "Fair"
    ELSE IF quality >= 20 THEN "Poor"
    ELSE "Very Poor"

(***************************************************************************)
(* parseNetworkLine.                                                       *)
(***************************************************************************)
\* WiFiNetwork{}
ZeroNetwork ==
    [SSID |-> "", BSSID |-> "", Signal |-> 0, SignalDBm |-> 0, Quality |-> "",
     QualityLabel |-> "", InUse |-> FALSE]

\* fields[k], k counted from 0 as in Go
At(fields, k) == fields[k + 1]

\* the first index i >= start with fields[i] == "Infra", or -1
InfraIndex(fields, start) ==
    LET hits == {i \in start..(Len(fields) - 1) : At(fields, i) = "Infra"}
    IN  IF hits = {} THEN -1
        ELSE CHOOSE i \in hits : \A j \in hits : i <= j

\* where the SSID ends: at "Infra", else six fields before the end
SsidEnd(fields, startIdx) ==
    LET infraIndex == InfraIndex(fields, startIdx + 1)
    IN  IF infraIndex # -1 THEN infraIndex ELSE Len(fields) - 6

\* the index of the SIGNAL field: third from the end
SignalIndex_rate(fields) == Len(fields) - 4

SignalIndex(fields) == Len(fields) - 3

\* kind: "ok" (a network, nil), "skip" (an error returned), "panic" (fields[a:b]
\* with a > b: slice bounds out of range)
parseNetworkLine(fields) ==
    IF Len(fields) < 7
    THEN [kind |-> "skip", net |-> ZeroNetwork]
    ELSE
      LET inUse == At(fields, 0) = "*"
          startIdx == IF inUse THEN 1 ELSE 0
          ssidEnd == SsidEnd(fields, startIdx)
          joined == Join(SubSeq(fields, startIdx + 2, ssidEnd))
          ssid == IF joined = "--" THEN HiddenLabel ELSE joined
          n1 == [ZeroNetwork EXCEPT !.InUse = inUse,
                                    !.BSSID = At(fields, startIdx)]
          n2 == [n1 EXCEPT !.SSID = ssid]
          signal == Atoi(At(fields, SignalIndex(fields)))
      IN  IF startIdx + 1 > ssidEnd
          THEN [kind |-> "panic", net |-> n1]
          ELSE IF ~signal.ok
          THEN [kind |-> "skip", net |-> n2]
          ELSE [kind |-> "ok",
                net |-> [n2 EXCEPT
                           !.Signal = signal.val,
                           !.SignalDBm = -100 + GoDiv(signal.val * 60, 100),
                           !.Quality = At(fields, Len(fields) - 2),
                           !.QualityLabel =
                               getSignalQualityLabelFromPercent(signal.val)]]

(***************************************************************************)
(* The two specifications of the pure functions.                           *)
(***************************************************************************)
SeqsUpTo(S, n) == UNION {[1..k -> S] : k \in 0..n}

\* every line of up to MaxFields tokens over these four
GenericTokens == {"*", "Infra", "w", "80"}
GenericLines == SeqsUpTo(GenericTokens, MaxFields)

\* [*] BSSID w1 .. wk Infra CHAN RATE SIGNAL BARS SECURITY, k >= 1
SsidWords == {"w", "v", "--", "Infra"}
SignalTokens == {"80", "19", "-5"}
LayoutLine(star, words, sig) ==
    (IF star THEN <<"*">> ELSE <<>>) \o <<"b1">> \o words
        \o <<"Infra", "6", "54", sig, "bars", "wpa">>
LayoutLines ==
    {LayoutLine(star, words, sig) :
        star \in BOOLEAN,
        words \in SeqsUpTo(SsidWords, MaxWords) \ {<<>>},
        sig \in SignalTokens}

ParseLines == GenericLines \cup LayoutLines

NotParsed == [kind |-> "none", net |-> ZeroNetwork]

ScanIdle ==
    /\ isRoot = FALSE /\ pc = "idle" /\ nmcliErr = "pending"
    /\ outer = "idle" /\ outerErr = "" /\ lines = <<>> /\ idx = 0 /\ wg = 0
    /\ gpc = <<>> /\ gnet = <<>> /\ closer = "none" /\ closed = FALSE
    /\ networks = <<>> /\ out = <<>> /\ calls = <<>> /\ crashed = FALSE
    /\ libErr = "pending" /\ libRecords = <<>>
ParseIdle == pline = <<>> /\ pres = NotParsed
ClassIdle == percent = 0 /\ labels = <<"", "">>

ParseInit ==
    /\ pline \in ParseLines
    /\ pres = NotParsed
    /\ ScanIdle /\ ClassIdle

ParseLine ==
    /\ pres.kind = "none"
    /\ pres' = parseNetworkLine(pline)
    /\ UNCHANGED <<pline, scanVars, classVars>>

ParseNext == ParseLine
ParseSpec == ParseInit /\ [][ParseNext]_vars

ClassifyInit ==
    /\ percent \in (0 - PercentSlack)..(100 + PercentSlack)
    /\ labels = <<"", "">>
    /\ ScanIdle /\ ParseIdle

Classify ==
    /\ labels = <<"", "">>
    /\ labels' = <<getSignalQualityLabelFromPercent(percent),
                   getSignalQualityLabel(percent)>>
    /\ UNCHANGED <<percent, scanVars, parseVars>>

ClassifyNext == Classify
ClassifySpec == ClassifyInit /\ [][ClassifyNext]_vars

(***************************************************************************)
(* The inputs of a scan.                                                   *)
(***************************************************************************)
Header == <<"IN-USE", "BSSID", "SSID", "MODE", "CHAN", "RATE", "SIGNAL", "BARS", "SECURITY">>

LineHome80 == <<"*", "b1", "home", "Infra", "6", "54", "80", "bars", "wpa">>
LineHome50 == <<"b2", "home", "Infra", "6", "54", "50", "bars", "wpa">>
LineCafe80 == <<"b2", "cafe", "Infra", "6", "54", "80", "bars", "wpa">>
LineHidden == <<"b1", "--", "Infra", "6", "54", "50", "bars", "wpa">>
\* no SSID token at all before the mode keyword
LineNoName == <<"b1", "Infra", "6", "54", "19", "bars", "wpa">>
\* too few fields
LineShort == <<"b1", "home">>
\* marker, seven fields, no mode keyword
LineMarked7 == <<"*", "b1", "6", "54", "80", "bars", "wpa">>

ScanLines == {LineHome80, LineHome50, LineCafe80, LineHidden, LineNoName,
              LineShort, LineMarked7}

\* what cmd.CombinedOutput can return: an error, the empty output, a header
\* without a newline, or a header and data lines, each ended by a newline
CmdOutputs ==
    {<< <<>> >>, <<Header>>}
    \cup {<<Header>> \o data \o << <<>> >> : data \in SeqsUpTo(ScanLines, MaxLines)}
CmdResults ==
    {[err |-> TRUE, output |-> << <<>> >>]}
    \cup {[err |-> FALSE, output |-> o] : o \in CmdOutputs}

\* wifiscan.Wifi records
LibRecordSet ==
    {[SSID |-> "home", RSSI |-> -45], [SSID |-> "home", RSSI |-> -70],
     [SSID |-> "cafe", RSSI |-> -70], [SSID |-> "", RSSI |-> -60],
     [SSID |-> "a1b2c3d4e5f6", RSSI |-> -100],
     [SSID |-> "aa:bb:cc:dd:ee:ff", RSSI |-> -20]}
LibResults ==
    {[err |-> TRUE, records |-> <<>>]}
    \cup {[err |-> FALSE, records |-> r] : r \in SeqsUpTo(LibRecordSet, MaxRecords)}

(***************************************************************************)
(* Printing and sorting.                                                   *)
(***************************************************************************)
Line(kind) == [kind |-> kind]
HeaderLines == <<Line("header")>>
TroubleshootingLines == <<Line("alternativeError"), Line("troubleshooting")>>

\* sort.Slice(s, less) with less(i, j) = Key(s[i]) > Key(s[j]): some
\* permutation of s in non-increasing key order (sort.Slice is not stable)
IndexPermutations(n) == {f \in [1..n -> 1..n] : \A i, j \in 1..n : f[i] = f[j] => i = j}
SortSlice(s, Key(_)) ==
    {[i \in 1..Len(s) |-> s[f[i]]] : f \in
        {g \in IndexPermutations(Len(s)) :
            \A i, j \in 1..Len(s) : i < j => Key(s[g[i]]) >= Key(s[g[j]])}}

NetworkSignal(e) == e.net.Signal
RecordRSSI(e) == e.rec.RSSI

\* main.go:140-146: one row per collected network.  src is not printed: it is
\* the line of the output the row comes from.
NmcliRow(e) ==
    [kind |-> "row", id |-> e.net.SSID, ssid |-> e.net.SSID, mac |-> e.net.BSSID,
     signal |-> e.net.Signal, dbm |-> e.net.SignalDBm, quality |-> e.net.Quality,
     label |-> e.net.QualityLabel, src |-> e.src]
NmcliRows(ns) == [i \in 1..Len(ns) |-> NmcliRow(ns[i])]

NoNetworksLines(n) == IF n = 0 THEN <<Line("noNetworks")>> ELSE <<>>

\* main.go:305-313
QualityPercentage(rssi) ==
    IF rssi >= -30 THEN 100
    ELSE IF rssi <= -100 THEN 0
    ELSE 100 - GoDiv((rssi + 30) * 100, -70)

\* main.go:290-319: the row of one library record.  id is the name the record
\* came with, src its place in the library's result.
LibraryRow(e) ==
    LET hidden == ContainsColon(e.rec.SSID) \/ isLikelyMacAddress(e.rec.SSID)
        q == QualityPercentage(e.rec.RSSI)
    IN  [kind |-> "row", id |-> e.rec.SSID,
         ssid |-> IF hidden THEN HiddenLabel ELSE e.rec.SSID,
         mac |-> IF hidden THEN e.rec.SSID ELSE "N/A",
         signal |-> q, dbm |-> e.rec.RSSI, quality |-> "",
         label |-> getSignalQualityLabel(q), src |-> e.src]

\* main.go:282-320: the loop over the sorted records, with uniqueNetworks
RECURSIVE LibraryRows(_, _)
LibraryRows(rs, uniqueNetworks) ==
    IF rs = <<>> THEN <<>>
    ELSE IF rs[1].rec.SSID \in uniqueNetworks
    THEN LibraryRows(Tail(rs), uniqueNetworks)
    ELSE <<LibraryRow(rs[1])>>
            \o LibraryRows(Tail(rs), uniqueNetworks \cup {rs[1].rec.SSID})

(***************************************************************************)
(* scanWiFi and scanWithNmcli (specification Spec).                        *)
(***************************************************************************)
Init ==
    /\ isRoot \in BOOLEAN
    /\ pc = "scanWiFi"
    /\ nmcliErr = "pending"
    /\ outer = "idle" /\ outerErr = "" /\ lines = <<>> /\ idx = 0 /\ wg = 0
    /\ gpc = <<>> /\ gnet = <<>> /\ closer = "none" /\ closed = FALSE
    /\ networks = <<>> /\ out = <<>> /\ calls = <<>> /\ crashed = FALSE
    /\ libErr = "pending" /\ libRecords = <<>>
    /\ ParseIdle /\ ClassIdle

\* main.go:243: if !checkIsRoot()
MayScan(root) == root

\* main.go:241-252: the privilege check, then the call of scanWithNmcli
CheckRoot ==
    /\ ~crashed /\ pc = "scanWiFi"
    /\ IF ~MayScan(isRoot)
       THEN /\ out' = out \o <<Line("needRoot")>>
            /\ pc' = "done"
            /\ UNCHANGED calls
       ELSE /\ out' = out \o <<Line("scanning")>>
            /\ calls' = Append(calls, "nmcli")
            /\ pc' = "scanWithNmcli"
    /\ UNCHANGED <<isRoot, nmcliErr, outer, outerErr, lines, idx, wg, gpc, gnet,
                   closer, closed, networks, crashed, libErr, libRecords,
                   parseVars, classVars>>

\* main.go:39-112: exec.LookPath, the channels, go func() { ... }()
LookPath ==
    /\ ~crashed /\ pc = "scanWithNmcli"
    /\ \E found \in BOOLEAN :
        IF ~found
        THEN /\ nmcliErr' = "nmcli not found"
             /\ pc' = "returned"
             /\ UNCHANGED outer
        ELSE /\ outer' = "cmd"
             /\ pc' = "sleep"
             /\ UNCHANGED nmcliErr
    /\ UNCHANGED <<isRoot, outerErr, lines, idx, wg, gpc, gnet, closer, closed,
                   networks, out, calls, crashed, libErr, libRecords,
                   parseVars, classVars>>

\* main.go:114-121: the sleep, then the header
PrintHeader ==
    /\ ~crashed /\ pc = "sleep"
    /\ out' = out \o HeaderLines
    /\ pc' = "select"
    /\ UNCHANGED <<isRoot, nmcliErr, outer, outerErr, lines, idx, wg, gpc, gnet,
                   closer, closed, networks, calls, crashed, libErr, libRecords,
                   parseVars, classVars>>

\* the command goroutine goes on to the spawn loop with these lines
StartSpawn(ls) ==
    /\ lines' = ls
    /\ idx' = 0
    /\ gpc' = [i \in 1..Len(ls) |-> "none"]
    /\ gnet' = [i \in 1..Len(ls) |-> ZeroNetwork]
    /\ outer' = "spawn"
    /\ UNCHANGED outerErr

\* the command goroutine goes on to send this error
FailWith(e) ==
    /\ outerErr' = e
    /\ outer' = "sendErr"
    /\ UNCHANGED <<lines, idx, gpc, gnet>>

\* main.go:53-68: nmcli device wifi list, and the checks of its output
RunCommand ==
    /\ ~crashed /\ outer = "cmd"
    /\ \E r \in CmdResults :
        IF r.err THEN FailWith("nmcli failed")
        ELSE IF r.output = << <<>> >> THEN FailWith("no output from nmcli command")
        ELSE IF Len(r.output) <= 1
        THEN /\ outer' = "shell"
             /\ UNCHANGED <<outerErr, lines, idx, gpc, gnet>>
        ELSE StartSpawn(r.output)
    /\ UNCHANGED <<isRoot, pc, nmcliErr, wg, closer, closed, networks, out, calls,
                   crashed, libErr, libRecords, parseVars, classVars>>

\* main.go:69-79: sh -c "sudo nmcli device wifi list"
RunShell ==
    /\ ~crashed /\ outer = "shell"
    /\ \E r \in CmdResults :
        IF r.err
        THEN FailWith("no networks found or command didn't return proper output")
        ELSE IF Len(r.output) <= 1
        THEN FailWith("no networks found with alternative command")
        ELSE StartSpawn(r.output)
    /\ UNCHANGED <<isRoot, pc, nmcliErr, wg, closer, closed, networks, out, calls,
                   crashed, libErr, libRecords, parseVars, classVars>>

\* main.go:86-105: one iteration of the loop over lines; idx is Go's i, and
\* lines[idx + 1] the line it names
SpawnLine ==
    /\ ~crashed /\ outer = "spawn" /\ idx < Len(lines)
    /\ IF idx = 0 \/ lines[idx + 1] = <<>>
       THEN UNCHANGED <<wg, gpc>>
       ELSE /\ wg' = wg + 1
            /\ gpc' = [gpc EXCEPT ![idx + 1] = "parse"]
    /\ idx' = idx + 1
    /\ UNCHANGED <<isRoot, pc, nmcliErr, outer, outerErr, lines, gnet, closer,
                   closed, networks, out, calls, crashed, libErr, libRecords,
                   parseVars, classVars>>

\* main.go:108-112: go func() { wg.Wait(); close(networkChan) }(), and the
\* command goroutine ends
StartCloser ==
    /\ ~crashed /\ outer = "spawn" /\ idx = Len(lines)
    /\ closer' = "wait"
    /\ outer' = "done"
    /\ UNCHANGED <<isRoot, pc, nmcliErr, outerErr, lines, idx, wg, gpc, gnet,
                   closed, networks, out, calls, crashed, libErr, libRecords,
                   parseVars, classVars>>

\* main.go:92-101: a parse goroutine parses its line; a skipped line ends it
\* (the deferred wg.Done), a panic ends the process
ParseGoroutine(i) ==
    /\ ~crashed /\ gpc[i] = "parse"
    /\ LET r == parseNetworkLine(lines[i])
       IN  CASE r.kind = "panic" ->
                  /\ crashed' = TRUE
                  /\ UNCHANGED <<gpc, gnet, wg>>
             [] r.kind = "skip" ->
                  /\ gpc' = [gpc EXCEPT ![i] = "done"]
                  /\ wg' = wg - 1
                  /\ UNCHANGED <<gnet, crashed>>
             [] r.kind = "ok" ->
                  /\ gnet' = [gnet EXCEPT ![i] = r.net]
                  /\ gpc' = [gpc EXCEPT ![i] = "send"]
                  /\ UNCHANGED <<wg, crashed>>
    /\ UNCHANGED <<isRoot, pc, nmcliErr, outer, outerErr, lines, idx, closer,
                   closed, networks, out, calls, libErr, libRecords,
                   parseVars, classVars>>

\* main.go:93: the deferred wg.Done() of a goroutine whose send was received
GoroutineDone(i) ==
    /\ ~crashed /\ gpc[i] = "sent"
    /\ gpc' = [gpc EXCEPT ![i] = "done"]
    /\ wg' = wg - 1
    /\ UNCHANGED <<isRoot, pc, nmcliErr, outer, outerErr, lines, idx, gnet, closer,
                   closed, networks, out, calls, crashed, libErr, libRecords,
                   parseVars, classVars>>

\* main.go:109: wg.Wait() returns
WaitReturns_atOnce(counter) == TRUE

WaitReturns(counter) == counter = 0

\* main.go:108-111: the closer goroutine
CloseChannel ==
    /\ ~crashed /\ closer = "wait" /\ WaitReturns(wg)
    /\ closed' = TRUE
    /\ closer' = "done"
    /\ UNCHANGED <<isRoot, pc, nmcliErr, outer, outerErr, lines, idx, wg, gpc, gnet,
                   networks, out, calls, crashed, libErr, libRecords,
                   parseVars, classVars>>

\* main.go:129-130: case err := <-errorChan (the channel is unbuffered: the
\* send and the receive are one step)
ReceiveError ==
    /\ ~crashed /\ pc = "select" /\ outer = "sendErr"
    /\ nmcliErr' = outerErr
    /\ outer' = "done"
    /\ pc' = "returned"
    /\ UNCHANGED <<isRoot, outerErr, lines, idx, wg, gpc, gnet, closer, closed,
                   networks, out, calls, crashed, libErr, libRecords,
                   parseVars, classVars>>

\* main.go:103, 131, 154: networkChan <- network meets case network, ok :=
\* <-networkChan, and the network is appended
ReceiveNetwork(i) ==
    /\ ~crashed /\ pc = "select" /\ gpc[i] = "send"
    /\ networks' = Append(networks, [net |-> gnet[i], src |-> i])
    /\ gpc' = [gpc EXCEPT ![i] = "sent"]
    /\ UNCHANGED <<isRoot, pc, nmcliErr, outer, outerErr, lines, idx, wg, gnet,
                   closer, closed, out, calls, crashed, libErr, libRecords,
                   parseVars, classVars>>

\* main.go:148-152: what scanWithNmcli returns once the channel is closed
ClosedResult_failEmpty(ns) == IF ns = <<>> THEN "no networks found" ELSE "nil"

ClosedResult(ns) == "nil"

\* main.go:132-153: the channel is closed: sort, print, return
ReceiveClosed ==
    /\ ~crashed /\ pc = "select" /\ closed
    /\ \E sorted \in SortSlice(networks, NetworkSignal) :
        /\ networks' = sorted
        /\ out' = out \o NmcliRows(sorted) \o NoNetworksLines(Len(sorted))
        /\ nmcliErr' = ClosedResult(sorted)
    /\ pc' = "returned"
    /\ UNCHANGED <<isRoot, outer, outerErr, lines, idx, wg, gpc, gnet, closer,
                   closed, calls, crashed, libErr, libRecords, parseVars, classVars>>

\* main.go:253: if err != nil
FallbackNeeded_always(err) == TRUE

FallbackNeeded(err) == err # "nil"

\* main.go:258: the records with their places in the result
Tagged(records) == [i \in 1..Len(records) |-> [rec |-> records[i], src |-> i]]

\* main.go:253-326: scanWithNmcli has returned; on an error the wifiscan
\* library is tried, and its records sorted, deduplicated and printed
Fallback ==
    /\ ~crashed /\ pc = "returned"
    /\ IF ~FallbackNeeded(nmcliErr)
       THEN UNCHANGED <<out, calls, libErr, libRecords>>
       ELSE /\ calls' = Append(calls, "wifiscan")
            /\ \E r \in LibResults :
                /\ libErr' = IF r.err THEN "error" ELSE "nil"
                /\ libRecords' = r.records
                /\ IF r.err
                   THEN out' = out \o <<Line("primaryError")>> \o TroubleshootingLines
                   ELSE \E sorted \in SortSlice(Tagged(r.records), RecordRSSI) :
                          out' = out \o <<Line("primaryError")>> \o HeaderLines
                                     \o LibraryRows(sorted, {})
                                     \o NoNetworksLines(Len(sorted))
    /\ pc' = "done"
    /\ UNCHANGED <<isRoot, nmcliErr, outer, outerErr, lines, idx, wg, gpc, gnet,
                   closer, closed, networks, crashed, parseVars, classVars>>

Next ==
    \/ CheckRoot
    \/ LookPath
    \/ PrintHeader
    \/ RunCommand
    \/ RunShell
    \/ SpawnLine
    \/ StartCloser
    \/ \E i \in 1..Len(lines) : ParseGoroutine(i)
    \/ \E i \in 1..Len(lines) : GoroutineDone(i)
    \/ CloseChannel
    \/ ReceiveError
    \/ \E i \in 1..Len(lines) : ReceiveNetwork(i)
    \/ ReceiveClosed
    \/ Fallback

Spec == Init /\ [][Next]_vars

(***************************************************************************)
(* A scan whose external command may hang (specification HangSpec).        *)
(***************************************************************************)
\* main.go:54, 70: cmd.CombinedOutput() never returns.  The command is run
\* without a context or a timeout, so the command goroutine stays in the call.
CommandHangs ==
    /\ ~crashed /\ outer \in {"cmd", "shell"}
    /\ outer' = "hung"
    /\ UNCHANGED <<isRoot, pc, nmcliErr, outerErr, lines, idx, wg, gpc, gnet,
                   closer, closed, networks, out, calls, crashed, libErr,
                   libRecords, parseVars, classVars>>

HangNext == Next \/ CommandHangs

\* every goroutine that can run does run: a step is taken whenever one is
\* possible
HangSpec == Init /\ [][HangNext]_vars /\ WF_vars(HangNext)

(***************************************************************************)
(* Claims about a scan (Spec).                                             *)
(***************************************************************************)
Printed(kind) == \E i \in 1..Len(out) : out[i].kind = kind
IsRow(l) == l.kind = "row"
Rows == SelectSeq(out, IsRow)

NmcliReturned == nmcliErr # "pending"
NmcliFailed == nmcliErr \notin {"pending", "nil"}
LibraryFailed == libErr = "error"
Invoked(adapter) == \E i \in 1..Len(calls) : calls[i] = adapter

C2_NoPartialTable ==
    (pc = "done" /\ NmcliFailed /\ LibraryFailed)
    => (Printed("troubleshooting") /\ ~Printed("header") /\ ~Printed("row"))

\* the scan ended with a table: one of the adapters succeeded
ScanSucceeded ==
    /\ pc = "done"
    /\ nmcliErr = "nil" \/ (NmcliFailed /\ libErr = "nil")

\* the entries the successful adapter discovered, in discovery order, as the
\* rows they render to: the lines that parsed (<<>> for a line that did
\* not), or the library's records
Discovered ==
    IF nmcliErr = "nil"
    THEN [i \in 1..Len(lines) |->
            IF i > 1 /\ lines[i] # <<>> /\ parseNetworkLine(lines[i]).kind = "ok"
            THEN <<NmcliRow([net |-> parseNetworkLine(lines[i]).net, src |-> i])>>
            ELSE <<>>]
    ELSE [i \in 1..Len(libRecords) |->
            <<LibraryRow([rec |-> libRecords[i], src |-> i])>>]

\* the first entry discovered with this identifier
FirstSeen(id) ==
    LET ks == {k \in 1..Len(Discovered) :
                  Discovered[k] # <<>> /\ Discovered[k][1].id = id}
    IN  Discovered[CHOOSE k \in ks : \A m \in ks : k <= m][1]

\* a row as printed: without the place it comes from
AsPrinted(row) == [row EXCEPT !.src = 0]

\* C4: after a successful scan the rendered list holds at most one entry per
\* identifier, and the entry kept for an identifier is the first one of that
\* identifier in the adapter's discovery order.
C4_FirstSeenUnique ==
    ScanSucceeded =>
        /\ \A i, j \in 1..Len(Rows) : Rows[i].id = Rows[j].id => i = j
        /\ \A i \in 1..Len(Rows) :
              AsPrinted(Rows[i]) = AsPrinted(FirstSeen(Rows[i].id))

\* the lines that parsed, in line order, as rows
IsDiscovered(d) == d # <<>>
DiscoveredRows ==
    LET ds == SelectSeq(Discovered, IsDiscovered) IN [i \in 1..Len(ds) |-> ds[i][1]]

\* rows in non-increasing signalPercent order, equal ones in discovery order
StablyDescending(rows) ==
    \A i, j \in 1..Len(rows) :
        i < j => \/ rows[i].signal > rows[j].signal
                 \/ rows[i].signal = rows[j].signal /\ rows[i].src < rows[j].src

\* C5: the rows scanWithNmcli renders are in non-increasing signalPercent
\* order, and rows of equal signalPercent are in the order of their lines,
\* under every interleaving of the parse goroutines: what is printed is the
\* stable descending sort of the parsed lines.
C5_StableDescending ==
    nmcliErr = "nil" =>
        \E f \in IndexPermutations(Len(DiscoveredRows)) :
            /\ StablyDescending([i \in 1..Len(DiscoveredRows) |-> DiscoveredRows[f[i]]])
            /\ [i \in 1..Len(Rows) |-> AsPrinted(Rows[i])]
                 = [i \in 1..Len(DiscoveredRows) |-> AsPrinted(DiscoveredRows[f[i]])]

\* the command ran, and every data line after the header is unparseable
DataLines == {i \in 2..Len(lines) : lines[i] # <<>>}
AllUnparseable ==
    /\ DataLines # {}
    /\ \A i \in DataLines : parseNetworkLine(lines[i]).kind # "ok"

C7_IdentifierNonEmpty ==
    /\ \A i \in 1..Len(networks) : networks[i].net.SSID # ""
    /\ \A i \in 1..Len(Rows) :
          /\ Rows[i].ssid # ""
          /\ Rows[i].id \in {"", "--"} => Rows[i].ssid = HiddenLabel

\* the parse goroutines: one for each line after the header that is not empty
Spawned == {i \in 1..Len(lines) : i > 1 /\ lines[i] # <<>>}
ParsedOk == {i \in Spawned : parseNetworkLine(lines[i]).kind = "ok"}

\* C10: in scanWithNmcli sorting and rendering start only after every parse
\* goroutine has finished, the collected list then holds exactly one entry
\* for each line that parsed, under every interleaving, and no goroutine is
\* left blocked on a channel when the function returns.
C10_CollectedComplete ==
    /\ (nmcliErr = "nil" \/ (Printed("row") /\ libErr = "pending")) =>
          /\ nmcliErr = "nil" /\ idx = Len(lines)
          /\ \A i \in Spawned : gpc[i] = "done"
          /\ wg = 0
          /\ Len(networks) = Cardinality(ParsedOk)
          /\ \A i \in ParsedOk :
                \E k \in 1..Len(networks) :
                    /\ networks[k].src = i
                    /\ networks[k].net = parseNetworkLine(lines[i]).net
          /\ Len(Rows) = Len(networks)
    /\ NmcliReturned =>
          /\ outer \in {"idle", "done"}
          /\ closer \in {"none", "done"}
          /\ \A i \in 1..Len(gpc) : gpc[i] \in {"none", "done"}

\* two lines were parsed in parallel and both collected before the sort
C10_Witness ==
    /\ nmcliErr = "nil" /\ pc = "returned"
    /\ Cardinality(ParsedOk) = 2 /\ Len(networks) = 2
    /\ networks[1].src > networks[2].src

\* C11: if the external tool invocation hangs and never returns, the nmcli
\* adapter still eventually reports a failure, the fallback adapter is
\* eventually attempted, and the scan eventually terminates.
C11_HangFallsBack ==
    (outer = "hung") ~> (NmcliFailed /\ Invoked("wifiscan") /\ pc = "done")

(***************************************************************************)
(* Claims about parseNetworkLine (ParseSpec).                              *)
(***************************************************************************)
Parsed == pres.kind # "none"

\* C3: parseNetworkLine is total: for every line it returns a network or a
\* skip and never crashes, and every line of fewer than 7 fields is a skip.
C3_ParseTotal ==
    Parsed => /\ pres.kind \in {"ok", "skip"}
              /\ (Len(pline) < 7 => pres.kind = "skip")

\* The layout [*] BSSID w1 .. wk Infra CHAN RATE SIGNAL BARS SECURITY, k >= 1,
\* SIGNAL an integer: the marker is a leading "*", the mode keyword stands six
\* tokens before the end.
LayoutMarker(line) == IF line # <<>> /\ line[1] = "*" THEN 1 ELSE 0
IsLayout(line) ==
    /\ Len(line) >= LayoutMarker(line) + 8
    /\ line[Len(line) - 5] = "Infra"
    /\ Atoi(line[Len(line) - 2]).ok
LayoutWords(line) == SubSeq(line, LayoutMarker(line) + 2, Len(line) - 6)
LayoutResult(line, ssid) ==
    /\ pres.kind = "ok"
    /\ pres.net.SSID = ssid
    /\ pres.net.Signal = Atoi(line[Len(line) - 2]).val
    /\ pres.net.BSSID = line[LayoutMarker(line) + 1]
    /\ pres.net.InUse = (line[1] = "*")

\* C8 as stated: for every line of the layout, whatever its SSID words, the
\* entry's identifier is the words joined by single spaces, its signalPercent
\* is SIGNAL, its BSSID the token after the marker, inUse iff the marker.
C8_LayoutAnyWords ==
    (Parsed /\ IsLayout(pline)) => LayoutResult(pline, Join(LayoutWords(pline)))

\* C8 amended: the same for SSID words none of which is "Infra", where the
\* single word "--" gives the identifier "[Hidden Network]".
C8_LayoutParsed ==
    (Parsed /\ IsLayout(pline)
        /\ \A i \in 1..Len(LayoutWords(pline)) : LayoutWords(pline)[i] # "Infra")
    => LayoutResult(pline, IF LayoutWords(pline) = <<"--">> THEN HiddenLabel
                           ELSE Join(LayoutWords(pline)))

\* a marked line with a two-word SSID has been parsed into "w v"
C8_Witness ==
    /\ Parsed /\ IsLayout(pline)
    /\ pline[1] = "*"
    /\ LayoutWords(pline) = <<"w", "v">>
    /\ pres.kind = "ok" /\ pres.net.SSID = "w v" /\ pres.net.Signal = 19

(***************************************************************************)
(* Claims about the classifiers (ClassifySpec).                            *)
(***************************************************************************)
Classified == labels # <<"", "">>

QualityRank(label) ==
    CASE label = "Excellent" -> 4 [] label = "Good" -> 3 [] label = "Fair" -> 2
      [] label = "Poor" -> 1 [] label = "Very Poor" -> 0

\* C9: the classifier maps p to Excellent from 80, Good from 60, Fair from 40,
\* Poor from 20 and Very Poor below, for every integer; the quality of a
\* smaller percent is never better; both classifier functions agree.
C9_Classifier ==
    Classified =>
        /\ labels[1] = (CASE percent >= 80 -> "Excellent"
                          [] percent >= 60 /\ percent < 80 -> "Good"
                          [] percent >= 40 /\ percent < 60 -> "Fair"
                          [] percent >= 20 /\ percent < 40 -> "Poor"
                          [] OTHER -> "Very Poor")
        /\ labels[2] = labels[1]
        /\ \A q \in (0 - PercentSlack)..percent :
              /\ QualityRank(getSignalQualityLabelFromPercent(q)) <= QualityRank(labels[1])
              /\ QualityRank(getSignalQualityLabel(q)) <= QualityRank(labels[2])

\* the boundary 80 has been classified, by both functions
C9_Witness == Classified /\ percent = 80 /\ labels = <<"Excellent", "Excellent">>

====
